---------------------------- MODULE Spec2Model ----------------------------
(***************************************************************************)
(* Model of the NHANES preprocessing pipeline of bt-tfm-tlm-clustering.    *)
(*                                                                         *)
(*   Stage 1 (XPT -> CSV conversion notebook): convert_xpt_to_csv and the  *)
(*            batch loop over survey_cycles.                               *)
(*   Stage 2 (data_preprocessing.ipynb): one action per notebook cell:     *)
(*            load/concat, exam filter, mode/mean aggregation, three-way   *)
(*            merge, age/amputation filter, cleanup, range validation,     *)
(*            stratification labels, collapse + stratified split, save.    *)
(*                                                                         *)
(* Numbers.  A table cell is an integer; a missing value (pandas NaN) is   *)
(* the value NaN, and every comparison with NaN is false except "!=",      *)
(* which is true, as in IEEE arithmetic.  bmi is held in tenths (18.5 is   *)
(* 185); ages are whole months; the other measurements are whole units.    *)
(* Mass values are drawn as multiples of 60, so that the arithmetic mean   *)
(* of up to six of them is a whole number and \div computes it exactly.    *)
(***************************************************************************)
EXTENDS Integers, Sequences, FiniteSets, TLC

VARIABLES
    \* ---- stage 2: data_preprocessing.ipynb
    pc,                       \* the next notebook cell to run
    csv_files,                \* csv/{year}/{data_type}.csv : contents
    missing_files,            \* the <<year, data_type>> files that do not exist
    lean_fat_data, body_measurements, demographic_data,
    filtered_lean_fat_data,
    aggregated_lean_fat_df,
    merged_health_data,
    filtered_health_data,
    cleaned_health_data,
    validated_health_data,
    train_set, test_set,      \* index positions of validated_health_data
    printed,                  \* the messages printed by the cells, in order
    saved,                    \* the files written by the last cell
    \* ---- stage 1: the conversion notebook
    batch_i,                  \* position of the batch loop in survey_cycles
    invoked,                  \* the tuples convert_xpt_to_csv was called with
    batch_out,                \* what the batch printed, in order
    broken_xpt,               \* the damaged source file this run may meet
    xpt_seen,                 \* the source files the calls were given, in order
    csv_written,              \* the CSV files written, in order
    \* ---- stage 1: one call of convert_xpt_to_csv
    conv_call,                \* the arguments and the source file of the call
    conv_pc,                  \* "call" before the call, "returned" after it
    conv_result,              \* what the call printed and wrote
    conv_events,              \* the call's prints and writes, in program order
    \* ---- classify_bmi applied to a single value
    bmi_value, bmi_class

stage2_vars == <<pc, csv_files, missing_files, lean_fat_data, body_measurements,
                 demographic_data, filtered_lean_fat_data, aggregated_lean_fat_df,
                 merged_health_data, filtered_health_data, cleaned_health_data,
                 validated_health_data, train_set, test_set, printed, saved>>
conv_vars == <<conv_call, conv_pc, conv_result, conv_events>>
stage1_vars == <<batch_i, invoked, batch_out, broken_xpt, xpt_seen, csv_written,
                 conv_vars>>
bmi_vars == <<bmi_value, bmi_class>>
vars == <<stage2_vars, stage1_vars, bmi_vars>>

-----------------------------------------------------------------------------
(* Missing values *)

\* The missing value: what pandas reads from the text "nan" the converter writes.
NaN == -1

IsNaN(v) == v = NaN
Lt(a, b) == ~IsNaN(a) /\ ~IsNaN(b) /\ a < b
Le(a, b) == ~IsNaN(a) /\ ~IsNaN(b) /\ a <= b
Gt(a, b) == Lt(b, a)
Ge(a, b) == Le(b, a)
Eq(a, b) == ~IsNaN(a) /\ ~IsNaN(b) /\ a = b
Ne(a, b) == ~Eq(a, b)

-----------------------------------------------------------------------------
(* Sequences as tables *)

Range(s) == {s[i] : i \in 1..Len(s)}

RECURSIVE Sum(_)
Sum(s) == IF s = <<>> THEN 0 ELSE Head(s) + Sum(Tail(s))

RECURSIVE Flatten(_)
Flatten(ss) == IF ss = <<>> THEN <<>> ELSE Head(ss) \o Flatten(Tail(ss))

Count(s, v) == Cardinality({i \in 1..Len(s) : s[i] = v})

Column(table, c) == [i \in 1..Len(table) |-> table[i][c]]

Min(S) == CHOOSE m \in S : \A x \in S : m <= x
Max(S) == CHOOSE m \in S : \A x \in S : m >= x

RECURSIVE SortedSeq(_)
SortedSeq(S) == IF S = {} THEN <<>> ELSE <<Min(S)>> \o SortedSeq(S \ {Min(S)})

\* DataFrame.dropna(): keeps the rows with no missing value in any column.
HasNaN(row) == \E c \in DOMAIN row : IsNaN(row[c])
dropna(table) == SelectSeq(table, LAMBDA r : ~HasNaN(r))

\* DataFrame.drop(columns=..., errors='ignore')
DropColumns(row, cols) == [c \in (DOMAIN row) \ cols |-> row[c]]

-----------------------------------------------------------------------------
(* Cell 2: load the per-cycle CSV files and concatenate them per category *)

survey_years == <<"1999_2000", "2001_2002", "2003_2004", "2005_2006">>
data_types == <<"lean_fat_data", "body_measures", "demographic_data">>

\* dataframes[data_type] after the loop: the tables of the files that exist,
\* in survey_years order.
RECURSIVE LoadedFrom(_, _)
LoadedFrom(data_type, y) ==
    IF y > Len(survey_years) THEN <<>>
    ELSE (IF <<survey_years[y], data_type>> \in missing_files
          THEN <<>>
          ELSE <<csv_files[survey_years[y]][data_type]>>)
         \o LoadedFrom(data_type, y + 1)

dataframes(data_type) == LoadedFrom(data_type, 1)

\* The "File not found" warnings, in the order of the two nested loops.
RECURSIVE LoadWarnings(_, _)
LoadWarnings(y, t) ==
    IF y > Len(survey_years) THEN <<>>
    ELSE IF t > Len(data_types) THEN LoadWarnings(y + 1, 1)
    ELSE (IF <<survey_years[y], data_types[t]>> \in missing_files
          THEN <<[msg |-> "file_not_found", year |-> survey_years[y],
                  data_type |-> data_types[t]]>>
          ELSE <<>>)
         \o LoadWarnings(y, t + 1)

\* pd.concat raises ValueError("No objects to concatenate") on an empty list.
ConcatRaises == \E t \in 1..Len(data_types) : dataframes(data_types[t]) = <<>>

\* The three pd.concat statements run in this order; the first one given an
\* empty list raises, and the statements after it never run.
LoadAndConcat ==
    /\ pc = "load"
    /\ IF ConcatRaises
       THEN /\ pc' = "stopped_at_load"
            /\ printed' = printed \o LoadWarnings(1, 1)
                                  \o <<[msg |-> "ValueError_no_objects"]>>
            /\ lean_fat_data' =
                  IF dataframes("lean_fat_data") = <<>> THEN lean_fat_data
                  ELSE Flatten(dataframes("lean_fat_data"))
            /\ body_measurements' =
                  IF dataframes("lean_fat_data") = <<>>
                     \/ dataframes("body_measures") = <<>>
                  THEN body_measurements
                  ELSE Flatten(dataframes("body_measures"))
            /\ UNCHANGED demographic_data
       ELSE /\ pc' = "filter_exam"
            /\ lean_fat_data' = Flatten(dataframes("lean_fat_data"))
            /\ body_measurements' = Flatten(dataframes("body_measures"))
            /\ demographic_data' = Flatten(dataframes("demographic_data"))
            /\ printed' = printed \o LoadWarnings(1, 1)
    /\ UNCHANGED <<csv_files, missing_files, filtered_lean_fat_data,
                   aggregated_lean_fat_df, merged_health_data, filtered_health_data,
                   cleaned_health_data, validated_health_data, train_set, test_set,
                   saved>>
    /\ UNCHANGED <<stage1_vars, bmi_vars>>

-----------------------------------------------------------------------------
(* Cell 3: keep the valid exams *)

\* (variant: the exam_status test left out)
ValidExam_AnyStatus(r) == TRUE

ValidExam(r) == Eq(r.exam_status, 1)

FilterExam ==
    /\ pc = "filter_exam"
    /\ filtered_lean_fat_data' = dropna(SelectSeq(lean_fat_data, ValidExam))
    /\ pc' = "aggregate"
    /\ UNCHANGED <<csv_files, missing_files, lean_fat_data, body_measurements,
                   demographic_data, aggregated_lean_fat_df, merged_health_data,
                   filtered_health_data, cleaned_health_data, validated_health_data,
                   train_set, test_set, printed, saved>>
    /\ UNCHANGED <<stage1_vars, bmi_vars>>

-----------------------------------------------------------------------------
(* Cell 4: one fat-mass and one lean-mass value per subject *)

\* scipy.stats.mode(values, keepdims=True): the smallest of the most frequent
\* values, and how often it occurs.
ModeCount(values) == Max({Count(values, v) : v \in Range(values)})
\* (variant: of the most frequent values, the one met first in row order)
ModeValue_FirstEncountered(values) ==
    values[Min({i \in 1..Len(values) : Count(values, values[i]) = ModeCount(values)})]

ModeValue(values) == Min({v \in Range(values) : Count(values, v) = ModeCount(values)})

\* Series.mean()
Mean(values) == Sum(values) \div Len(values)

\* (variant: count[0] >= 1, so the mode is always taken)
ModeOrMean_AlwaysMode(values) ==
    IF ModeCount(values) >= 1 THEN ModeValue(values) ELSE Mean(values)

\* mode.mode[0] if mode.count[0] > 1 else mean
ModeOrMean(values) ==
    IF ModeCount(values) > 1 THEN ModeValue(values) ELSE Mean(values)

Group(table, id) == SelectSeq(table, LAMBDA r : r.id = id)

AggregateRow(table, id) ==
    [id |-> id,
     total_fat_mass |-> ModeOrMean(Column(Group(table, id), "total_fat_mass")),
     total_lean_mass |-> ModeOrMean(Column(Group(table, id), "total_lean_mass"))]

\* groupby('id') visits the groups by ascending id.
GroupIds(table) == SortedSeq({r.id : r \in Range(table)})

AggregateTable(table) ==
    [k \in 1..Len(GroupIds(table)) |-> AggregateRow(table, GroupIds(table)[k])]

Aggregate ==
    /\ pc = "aggregate"
    /\ aggregated_lean_fat_df' = AggregateTable(filtered_lean_fat_data)
    /\ pc' = "merge"
    /\ UNCHANGED <<csv_files, missing_files, lean_fat_data, body_measurements,
                   demographic_data, filtered_lean_fat_data, merged_health_data,
                   filtered_health_data, cleaned_health_data, validated_health_data,
                   train_set, test_set, printed, saved>>
    /\ UNCHANGED <<stage1_vars, bmi_vars>>

-----------------------------------------------------------------------------
(* Cell 5: three-way inner join on id *)

\* left.merge(right, on='id', how='inner'): for every left row, in order, one
\* output row per right row with the same id, in the right table's order.
MatchesOf(l, right) == SelectSeq(right, LAMBDA r : r.id = l.id)

InnerMerge(left, right) ==
    Flatten([i \in 1..Len(left) |->
               [j \in 1..Len(MatchesOf(left[i], right)) |->
                  left[i] @@ MatchesOf(left[i], right)[j]]])

Merge ==
    /\ pc = "merge"
    /\ merged_health_data' =
          InnerMerge(InnerMerge(body_measurements, demographic_data),
                     aggregated_lean_fat_df)
    /\ pc' = "filter_age"
    /\ UNCHANGED <<csv_files, missing_files, lean_fat_data, body_measurements,
                   demographic_data, filtered_lean_fat_data, aggregated_lean_fat_df,
                   filtered_health_data, cleaned_health_data, validated_health_data,
                   train_set, test_set, printed, saved>>
    /\ UNCHANGED <<stage1_vars, bmi_vars>>

-----------------------------------------------------------------------------
(* Cell 6: exclude amputees, keep ages in [15, 64) years *)

NotAmputee(r) == Ne(r.amputation, 1)

\* age_in_months / 12 >= years   and   age_in_months / 12 < years
AgeYearsGe(months, years) == Ge(months, 12 * years)
AgeYearsLt(months, years) == Lt(months, 12 * years)

\* (variant: the upper age bound taken inclusive)
InAgeRange_UpperInclusive(r) ==
    AgeYearsGe(r.age_in_months, 15) /\ Le(r.age_in_months, 12 * 64)

InAgeRange(r) == AgeYearsGe(r.age_in_months, 15) /\ AgeYearsLt(r.age_in_months, 64)

FilterAgeAmputation ==
    /\ pc = "filter_age"
    /\ filtered_health_data' =
          SelectSeq(SelectSeq(merged_health_data, NotAmputee), InAgeRange)
    /\ pc' = "cleanup"
    /\ UNCHANGED <<csv_files, missing_files, lean_fat_data, body_measurements,
                   demographic_data, filtered_lean_fat_data, aggregated_lean_fat_df,
                   merged_health_data, cleaned_health_data, validated_health_data,
                   train_set, test_set, printed, saved>>
    /\ UNCHANGED <<stage1_vars, bmi_vars>>

-----------------------------------------------------------------------------
(* Cell 7: drop the two helper columns, then the rows with missing values *)

columns_to_remove == {"pregnancy_status", "amputation"}

\* (variant: rows with missing values dropped before the two columns)
CleanTable_DropnaFirst(table) ==
    [i \in 1..Len(dropna(table)) |-> DropColumns(dropna(table)[i], columns_to_remove)]

\* .drop(columns=columns_to_remove, errors='ignore') then .dropna()
CleanTable(table) ==
    dropna([i \in 1..Len(table) |-> DropColumns(table[i], columns_to_remove)])

Cleanup ==
    /\ pc = "cleanup"
    /\ cleaned_health_data' = CleanTable(filtered_health_data)
    /\ pc' = "validate"
    /\ UNCHANGED <<csv_files, missing_files, lean_fat_data, body_measurements,
                   demographic_data, filtered_lean_fat_data, aggregated_lean_fat_df,
                   merged_health_data, filtered_health_data, validated_health_data,
                   train_set, test_set, printed, saved>>
    /\ UNCHANGED <<stage1_vars, bmi_vars>>

-----------------------------------------------------------------------------
(* Cells 8 and 9: range validation *)

\* valid_ranges, in dictionary order; bmi in tenths.
valid_ranges ==
    << [column |-> "weight",                     min_val |-> 30,  max_val |-> 300],
       [column |-> "height",                     min_val |-> 100, max_val |-> 250],
       [column |-> "bmi",                        min_val |-> 100, max_val |-> 600],
       [column |-> "upper_leg_length",           min_val |-> 30,  max_val |-> 100],
       [column |-> "maximal_calf_circumference", min_val |-> 20,  max_val |-> 60],
       [column |-> "upper_arm_length",           min_val |-> 20,  max_val |-> 50],
       [column |-> "arm_circumference",          min_val |-> 15,  max_val |-> 60],
       [column |-> "waist_circumference",        min_val |-> 50,  max_val |-> 200],
       [column |-> "thigh_circumference",        min_val |-> 30,  max_val |-> 90] >>

\* df.columns: the columns of a table (no row, no known column: the table came
\* from the merge, which always carries the measurement columns).
ColumnIn(df, column) == df = <<>> \/ column \in DOMAIN df[1]

\* (df[column] < min_val) | (df[column] > max_val)
Unrealistic(r, rng) == Lt(r[rng.column], rng.min_val) \/ Gt(r[rng.column], rng.max_val)
\* (variant: the upper bound left out)
Realistic_LowerBoundOnly(r, rng) == Ge(r[rng.column], rng.min_val)

\* (df[column] >= min_val) & (df[column] <= max_val)
Realistic(r, rng) == Ge(r[rng.column], rng.min_val) /\ Le(r[rng.column], rng.max_val)

\* One pass of the loop body for valid_ranges[k] on df: the table kept and
\* the warning printed.
StepKeep(df, rng) ==
    IF ColumnIn(df, rng.column) THEN SelectSeq(df, LAMBDA r : Realistic(r, rng)) ELSE df

\* (variant: the count is taken on the table validation was given)
invalid_count_OnInput(df, rng) ==
    Len(SelectSeq(cleaned_health_data, LAMBDA r : Unrealistic(r, rng)))

\* invalid_count = df[(df[column] < min_val) | (df[column] > max_val)].shape[0]
invalid_count(df, rng) == Len(SelectSeq(df, LAMBDA r : Unrealistic(r, rng)))

StepWarn(df, rng) ==
    IF ColumnIn(df, rng.column) /\ invalid_count(df, rng) > 0
    THEN <<[msg |-> "records_removed", count |-> invalid_count(df, rng),
            column |-> rng.column]>>
    ELSE <<>>

\* df after the first k columns of ranges.
RECURSIVE DfAfter(_, _, _)
DfAfter(df, ranges, k) ==
    IF k = 0 THEN df ELSE StepKeep(DfAfter(df, ranges, k - 1), ranges[k])

RECURSIVE WarningsAfter(_, _, _)
WarningsAfter(df, ranges, k) ==
    IF k = 0 THEN <<>>
    ELSE WarningsAfter(df, ranges, k - 1) \o StepWarn(DfAfter(df, ranges, k - 1), ranges[k])

filter_unrealistic_values(df, ranges) == DfAfter(df, ranges, Len(ranges))

Validate ==
    /\ pc = "validate"
    /\ validated_health_data' = filter_unrealistic_values(cleaned_health_data, valid_ranges)
    /\ printed' = printed \o WarningsAfter(cleaned_health_data, valid_ranges,
                                           Len(valid_ranges))
    /\ pc' = "stratify"
    /\ UNCHANGED <<csv_files, missing_files, lean_fat_data, body_measurements,
                   demographic_data, filtered_lean_fat_data, aggregated_lean_fat_df,
                   merged_health_data, filtered_health_data, cleaned_health_data,
                   train_set, test_set, saved>>
    /\ UNCHANGED <<stage1_vars, bmi_vars>>

-----------------------------------------------------------------------------
(* Cell 10: BMI class, age band, stratification key *)

\* (variant: every boundary value put in the lower band)
classify_bmi_BoundaryBelow(bmi) ==
    IF Le(bmi, 185) THEN "Underweight"
    ELSE IF Le(bmi, 250) THEN "Healthy Weight"
    ELSE IF Le(bmi, 300) THEN "Overweight"
    ELSE IF Le(bmi, 350) THEN "Obese"
    ELSE "Extremely Obese"

\* bmi_value in tenths: 18.5 is 185.
classify_bmi(bmi) ==
    IF Lt(bmi, 185) THEN "Underweight"
    ELSE IF Le(185, bmi) /\ Lt(bmi, 250) THEN "Healthy Weight"
    ELSE IF Le(250, bmi) /\ Lt(bmi, 300) THEN "Overweight"
    ELSE IF Le(300, bmi) /\ Lt(bmi, 350) THEN "Obese"
    ELSE "Extremely Obese"

\* pd.cut(age_in_months / 12, bins=..., labels=..., right=False)
age_bins == <<16, 26, 36, 46, 56, 65>>
age_labels == <<"16-26", "26-36", "36-46", "46-56", "56-65">>

\* The label of the bin [bins[i], bins[i+1]) the age falls in; a value in no
\* bin is missing, which astype(str) renders as "nan".
age_group(months) ==
    IF \E i \in 1..Len(age_labels) :
          AgeYearsGe(months, age_bins[i]) /\ AgeYearsLt(months, age_bins[i + 1])
    THEN age_labels[CHOOSE i \in 1..Len(age_labels) :
          AgeYearsGe(months, age_bins[i]) /\ AgeYearsLt(months, age_bins[i + 1])]
    ELSE "nan"

\* age_group + "_" + gender + "_" + ethnicity + "_" + bmi_group, kept as the
\* tuple of its four parts.
stratify_group(r) == <<age_group(r.age_in_months), r.gender, r.ethnicity, classify_bmi(r.bmi)>>

WithStrata(r) ==
    [age_group |-> age_group(r.age_in_months),
     bmi_group |-> classify_bmi(r.bmi),
     stratify_group |-> stratify_group(r)] @@ r

Stratify ==
    /\ pc = "stratify"
    /\ validated_health_data' =
          [i \in 1..Len(validated_health_data) |-> WithStrata(validated_health_data[i])]
    /\ printed' = printed \o
          <<[msg |-> "unique_groups",
             count |-> Cardinality({stratify_group(r) : r \in Range(validated_health_data)})]>>
    /\ pc' = "split"
    /\ UNCHANGED <<csv_files, missing_files, lean_fat_data, body_measurements,
                   demographic_data, filtered_lean_fat_data, aggregated_lean_fat_df,
                   merged_health_data, filtered_health_data, cleaned_health_data,
                   train_set, test_set, saved>>
    /\ UNCHANGED <<stage1_vars, bmi_vars>>

-----------------------------------------------------------------------------
(* Cell 11: collapse the rare keys, then the stratified 70/30 split *)

Other == <<"Other">>

\* group_counts = value_counts(); x if group_counts[x] >= 2 else 'Other'
group_counts(table, key) == Cardinality({i \in 1..Len(table) : table[i].stratify_group = key})

Collapse(table, key) == IF group_counts(table, key) >= 2 THEN key ELSE Other

CollapseTable(table) ==
    [i \in 1..Len(table) |->
        [table[i] EXCEPT !.stratify_group = Collapse(table, table[i].stratify_group)]]

\* train_test_split(df, test_size=0.30, random_state=42, stratify=y), from
\* scikit-learn: n_test = ceil(0.30 * n), n_train = n - n_test.
n_test(n) == (3 * n + 9) \div 10
n_train(n) == n - n_test(n)

Classes(y) == Range(y)
ClassCount(y, c) == Count(y, c)

\* The ValueError the split raises on y, or "none".
SplitError(y) ==
    IF n_train(Len(y)) = 0 THEN "empty_train_set"
    ELSE IF \E c \in Classes(y) : ClassCount(y, c) < 2 THEN "least_populated_class_has_1_member"
    ELSE IF n_train(Len(y)) < Cardinality(Classes(y)) THEN "train_size_lt_classes"
    ELSE IF n_test(Len(y)) < Cardinality(Classes(y)) THEN "test_size_lt_classes"
    ELSE "none"

RECURSIVE SumOver(_, _)
SumOver(S, f) ==
    IF S = {} THEN 0
    ELSE LET x == CHOOSE x \in S : TRUE IN f[x] + SumOver(S \ {x}, f)

\* _approximate_mode(class_counts, n_train): each class gets the floor of its
\* proportional share, and the draws left over go to the classes with the
\* largest remainders (ties broken by the seeded generator).
TrainAllocations(y) ==
    LET n == Len(y)
        share(c) == (ClassCount(y, c) * n_train(n)) \div n
        rest(c) == (ClassCount(y, c) * n_train(n)) % n
    IN  {a \in [Classes(y) -> 0..n] :
            /\ \A c \in Classes(y) : a[c] \in {share(c), share(c) + 1}
            /\ SumOver(Classes(y), a) = n_train(n)
            /\ \A c, d \in Classes(y) :
                  (a[c] = share(c) + 1 /\ a[d] = share(d)) => rest(c) >= rest(d)}

\* The test index sets the split can return: within each class a seeded
\* permutation puts the first a[c] rows in train and the others in test.
TestSets(y) ==
    {T \in SUBSET (1..Len(y)) :
        \E a \in TrainAllocations(y) :
            \A c \in Classes(y) :
                Cardinality({i \in T : y[i] = c}) = ClassCount(y, c) - a[c]}

CollapseAndSplit ==
    /\ pc = "split"
    /\ validated_health_data' = CollapseTable(validated_health_data)
    /\ LET y == Column(CollapseTable(validated_health_data), "stratify_group") IN
       IF SplitError(y) # "none"
       THEN /\ pc' = "stopped_at_split"
            /\ printed' = printed \o <<[msg |-> "ValueError", reason |-> SplitError(y)]>>
            /\ UNCHANGED <<train_set, test_set>>
       ELSE /\ pc' = "save"
            /\ \E T \in TestSets(y) :
                  /\ test_set' = T
                  /\ train_set' = (1..Len(y)) \ T
            /\ UNCHANGED printed
    /\ UNCHANGED <<csv_files, missing_files, lean_fat_data, body_measurements,
                   demographic_data, filtered_lean_fat_data, aggregated_lean_fat_df,
                   merged_health_data, filtered_health_data, cleaned_health_data,
                   saved>>
    /\ UNCHANGED <<stage1_vars, bmi_vars>>

-----------------------------------------------------------------------------
(* Cell 12: write data/train.csv and data/test.csv *)

\* The rows of a split output, by ascending position (the shuffled order of
\* the rows inside an output is not modelled).
RowsOf(table, indices) ==
    [k \in 1..Cardinality(indices) |-> table[SortedSeq(indices)[k]]]

Save ==
    /\ pc = "save"
    /\ saved' = [train |-> RowsOf(validated_health_data, train_set),
                 test |-> RowsOf(validated_health_data, test_set)]
    /\ pc' = "done"
    /\ UNCHANGED <<csv_files, missing_files, lean_fat_data, body_measurements,
                   demographic_data, filtered_lean_fat_data, aggregated_lean_fat_df,
                   merged_health_data, filtered_health_data, cleaned_health_data,
                   validated_health_data, train_set, test_set, printed>>
    /\ UNCHANGED <<stage1_vars, bmi_vars>>

-----------------------------------------------------------------------------
(* Stage 1: convert_xpt_to_csv and the batch loop over survey_cycles *)

columns_to_save_bm == <<"SEQN", "BMXWT", "BMXHT", "BMXBMI", "BMXLEG", "BMXCALF",
                        "BMXARML", "BMXARMC", "BMXWAIST", "BMXTHICR", "BMAAMP">>
new_columns_bm == <<"id", "weight", "height", "bmi", "upper_leg_length",
                    "maximal_calf_circumference", "upper_arm_length",
                    "arm_circumference", "waist_circumference",
                    "thigh_circumference", "amputation">>
columns_to_save_demo == <<"SEQN", "RIAGENDR", "RIDAGEEX", "RIDRETH1", "RIDEXPRG">>
new_columns_demo == <<"id", "gender", "age_in_months", "ethnicity", "pregnancy_status">>
columns_to_save_lean_mass_data == <<"SEQN", "DXAEXSTS", "DXDTOFAT", "DXDTOLI">>
new_columns_lean_mass_data == <<"id", "exam_status", "total_fat_mass", "total_lean_mass">>
columns_to_save_cv == <<"SEQN", "CVDFITLV">>
new_columns_cv == <<"id", "cv_fitness_level">>

Cycle(cycle, xpt_file, csv_file, columns, new_columns) ==
    [cycle |-> cycle, xpt_file |-> xpt_file, csv_file |-> csv_file,
     columns |-> columns, new_columns |-> new_columns]

survey_cycles ==
    << Cycle("1999_2000", "BMX", "body_measures", columns_to_save_bm, new_columns_bm),
       Cycle("1999_2000", "DEMO", "demographic_data", columns_to_save_demo, new_columns_demo),
       Cycle("1999_2000", "dxx", "lean_fat_data", columns_to_save_lean_mass_data, new_columns_lean_mass_data),
       Cycle("1999_2000", "CVX", "cv_level", columns_to_save_cv, new_columns_cv),
       Cycle("2001_2002", "BMX_B", "body_measures", columns_to_save_bm, new_columns_bm),
       Cycle("2001_2002", "DEMO_B", "demographic_data", columns_to_save_demo, new_columns_demo),
       Cycle("2001_2002", "dxx_b", "lean_fat_data", columns_to_save_lean_mass_data, new_columns_lean_mass_data),
       Cycle("2001_2002", "CVX_B", "cv_level", columns_to_save_cv, new_columns_cv),
       Cycle("2003_2004", "BMX_C", "body_measures", columns_to_save_bm, new_columns_bm),
       Cycle("2003_2004", "DEMO_C", "demographic_data", columns_to_save_demo, new_columns_demo),
       Cycle("2003_2004", "dxx_c", "lean_fat_data", columns_to_save_lean_mass_data, new_columns_lean_mass_data),
       Cycle("2003_2004", "CVX_C", "cv_level", columns_to_save_cv, new_columns_cv),
       Cycle("2005_2006", "BMX_D", "body_measures", columns_to_save_bm, new_columns_bm),
       Cycle("2005_2006", "DEMO_D", "demographic_data", columns_to_save_demo, new_columns_demo),
       Cycle("2005_2006", "dxx_d", "lean_fat_data", columns_to_save_lean_mass_data, new_columns_lean_mass_data) >>

\* An XPT file as the converter sees it:
\*   exists     open(xpt_file_path, 'rb') succeeds
\*   wellformed xport.XportReader(xpt_file) succeeds
\*   fields     reader.fields
\*   rows       the records, each a function from the fields to values
\*   readable   how many records the reader yields before it raises
\*              (Len(rows) when the file is read to its end)
XptFile(exists, wellformed, fields, rows, readable) ==
    [exists |-> exists, wellformed |-> wellformed, fields |-> fields,
     rows |-> rows, readable |-> readable]

\* (variant: only the first absent column is reported)
missing_columns_FirstOnly(columns_to_save, xpt) ==
    LET absent == SelectSeq(columns_to_save, LAMBDA col : col \notin Range(xpt.fields))
    IN  IF absent = <<>> THEN <<>> ELSE <<absent[1]>>

\* missing_columns = [col for col in columns_to_save if col not in available_fields]
missing_columns(columns_to_save, xpt) ==
    SelectSeq(columns_to_save, LAMBDA col : col \notin Range(xpt.fields))

\* The value written for old_name: getattr(row, old_name, "nan") if old_name in
\* available_fields else "nan".
CellOf(row, old_name, xpt) ==
    IF old_name \in Range(xpt.fields)
    THEN (IF old_name \in DOMAIN row THEN row[old_name] ELSE "nan")
    ELSE "nan"

\* The row written for one record: one cell per output column, in new_columns
\* order (column_mapping = dict(zip(columns_to_save, new_columns))).
RowOut(row, columns_to_save, xpt) ==
    [k \in 1..Len(columns_to_save) |-> CellOf(row, columns_to_save[k], xpt)]

\* Where the try block raises, or "none".
Raises(xpt) ==
    IF ~xpt.exists THEN "FileNotFoundError"
    ELSE IF ~xpt.wellformed THEN "ValueError_header"
    ELSE IF xpt.readable < Len(xpt.rows) THEN "ValueError_record"
    ELSE "none"

\* What one call prints, in order.
ConvertPrinted(columns_to_save, xpt, csv_path_to_save) ==
    (IF xpt.exists /\ xpt.wellformed /\ missing_columns(columns_to_save, xpt) # <<>>
     THEN <<[msg |-> "Warning_missing_columns",
             columns |-> missing_columns(columns_to_save, xpt)]>>
     ELSE <<>>)
    \o (IF Raises(xpt) = "none"
        THEN <<[msg |-> "Data successfully saved", path |-> csv_path_to_save]>>
        ELSE <<[msg |-> "Error", e |-> Raises(xpt)]>>)

\* (variant: writer.writeheader() is never called)
ConvertWritten_NoHeader(columns_to_save, new_columns, xpt) ==
    IF ~xpt.exists \/ ~xpt.wellformed THEN <<>>
    ELSE <<[header |-> <<>>,
            rows |-> [k \in 1..xpt.readable |-> RowOut(xpt.rows[k], columns_to_save, xpt)]]>>

\* The CSV file one call leaves behind: nothing when the source cannot be
\* opened or parsed, else the header and the rows written before any failure.
ConvertWritten(columns_to_save, new_columns, xpt) ==
    IF ~xpt.exists \/ ~xpt.wellformed THEN <<>>
    ELSE <<[header |-> new_columns,
            rows |-> [k \in 1..xpt.readable |-> RowOut(xpt.rows[k], columns_to_save, xpt)]]>>

\* (variant: no try/except, so an exception leaves the function)
convert_xpt_to_csv_NoExcept(columns_to_save, new_columns, xpt, csv_path_to_save) ==
    [printed |-> IF Raises(xpt) = "none"
                 THEN ConvertPrinted(columns_to_save, xpt, csv_path_to_save)
                 ELSE <<>>,
     written |-> ConvertWritten(columns_to_save, new_columns, xpt),
     propagates |-> Raises(xpt) # "none"]

\* convert_xpt_to_csv: the except clause catches every Exception, so the call
\* always returns; its result is what it printed and what it wrote.
convert_xpt_to_csv(columns_to_save, new_columns, xpt, csv_path_to_save) ==
    [printed |-> ConvertPrinted(columns_to_save, xpt, csv_path_to_save),
     written |-> ConvertWritten(columns_to_save, new_columns, xpt),
     propagates |-> FALSE]

\* The source files the batch may meet for a tuple: one with the requested
\* schema and two records, or this run's damaged file: one that does not
\* exist, one whose header does not parse, or one cut short after a record.
PlainXpt(columns) ==
    XptFile(TRUE, TRUE, columns,
            <<[c \in Range(columns) |-> 1], [c \in Range(columns) |-> 2]>>, 2)
AbsentXpt(columns) == [PlainXpt(columns) EXCEPT !.exists = FALSE]
MalformedXpt(columns) == [PlainXpt(columns) EXCEPT !.wellformed = FALSE]
TruncatedXpt(columns) == [PlainXpt(columns) EXCEPT !.readable = 1]
DamagedXpt(kind, columns) ==
    CASE kind = "absent" -> AbsentXpt(columns)
      [] kind = "malformed" -> MalformedXpt(columns)
      [] kind = "truncated" -> TruncatedXpt(columns)
DamageKinds == {"absent", "malformed", "truncated"}
BatchXptFiles(t) == {PlainXpt(t.columns), DamagedXpt(broken_xpt, t.columns)}

csv_path(t) == <<"csv", t.cycle, t.csv_file>>

\* One iteration of the for loop; after the last one, the completion message.
BatchStep ==
    /\ batch_i \in 1..Len(survey_cycles)
    /\ \E xpt \in BatchXptFiles(survey_cycles[batch_i]) :
         LET t == survey_cycles[batch_i]
             res == convert_xpt_to_csv(t.columns, t.new_columns, xpt, csv_path(t))
         IN  /\ invoked' = Append(invoked, batch_i)
             /\ xpt_seen' = Append(xpt_seen, xpt)
             /\ csv_written' = csv_written \o
                   [k \in 1..Len(res.written) |->
                       [path |-> csv_path(t), content |-> res.written[k]]]
             /\ IF res.propagates
                THEN /\ batch_i' = 0
                     /\ batch_out' = batch_out \o <<[msg |-> "Traceback"]>>
                ELSE /\ batch_i' = batch_i + 1
                     /\ batch_out' = batch_out \o res.printed \o
                           (IF batch_i = Len(survey_cycles)
                            THEN <<[msg |-> "All files processed successfully."]>>
                            ELSE <<>>)
    /\ UNCHANGED broken_xpt
    /\ UNCHANGED conv_vars
    /\ UNCHANGED <<stage2_vars, bmi_vars>>

-----------------------------------------------------------------------------
(* Stage 1: one call of convert_xpt_to_csv, effect by effect *)

\* The prints and the writes of one call in the order the code performs them:
\* the warning (before os.makedirs and open(..., 'w')), writer.writeheader(),
\* one writer.writerow per record the reader yields, then the success message,
\* or the except clause's message from the point where the try block raised.
ConvertEvents(columns_to_save, new_columns, xpt, csv_path_to_save) ==
    IF ~xpt.exists \/ ~xpt.wellformed
    THEN <<[op |-> "print", msg |-> "Error", e |-> Raises(xpt)]>>
    ELSE (IF missing_columns(columns_to_save, xpt) # <<>>
          THEN <<[op |-> "print", msg |-> "Warning_missing_columns",
                  columns |-> missing_columns(columns_to_save, xpt)]>>
          ELSE <<>>)
         \o <<[op |-> "writeheader", header |-> new_columns]>>
         \o [k \in 1..xpt.readable |->
                [op |-> "writerow", row |-> RowOut(xpt.rows[k], columns_to_save, xpt)]]
         \o (IF Raises(xpt) = "none"
             THEN <<[op |-> "print", msg |-> "Data successfully saved",
                     path |-> csv_path_to_save]>>
             ELSE <<[op |-> "print", msg |-> "Error", e |-> Raises(xpt)]>>)

NoCall == [columns |-> <<>>, new_columns |-> <<>>,
           xpt |-> XptFile(FALSE, FALSE, <<>>, <<>>, 0), path |-> <<>>]

ConvertStart(call) ==
    /\ conv_call = call
    /\ conv_pc = "call"
    /\ conv_result = [printed |-> <<>>, written |-> <<>>, propagates |-> FALSE]
    /\ conv_events = <<>>

\* convert_xpt_to_csv(columns, new_columns, xpt_file_path, csv_path_to_save)
ConvertOne ==
    /\ conv_pc = "call"
    /\ conv_call # NoCall
    /\ conv_result' = convert_xpt_to_csv(conv_call.columns, conv_call.new_columns,
                                         conv_call.xpt, conv_call.path)
    /\ conv_events' = ConvertEvents(conv_call.columns, conv_call.new_columns,
                                    conv_call.xpt, conv_call.path)
    /\ conv_pc' = "returned"
    /\ UNCHANGED conv_call
    /\ UNCHANGED <<batch_i, invoked, batch_out, broken_xpt, xpt_seen, csv_written>>
    /\ UNCHANGED <<stage2_vars, bmi_vars>>

-----------------------------------------------------------------------------
(* classify_bmi on one value *)

ClassifyOne ==
    /\ bmi_class = "unset"
    /\ bmi_class' = classify_bmi(bmi_value)
    /\ UNCHANGED bmi_value
    /\ UNCHANGED <<stage2_vars, stage1_vars>>

-----------------------------------------------------------------------------
(* Inputs: the CSV files stage 2 starts from *)

MaxRows == 3       \* rows of a body-measurement or demographic table
MaxExams == 5      \* rows of a lean/fat-mass table
MaxBmi == 800      \* largest bmi (in tenths) classify_bmi is applied to alone
MaxAbsent == 2     \* requested columns a source schema may lack
MaxRecords == 2    \* records of a source file converted alone

SeqUpTo(S, n) == UNION {[1..k -> S] : k \in 0..n}

Body(id) ==
    [id |-> id, weight |-> 70, height |-> 170, bmi |-> 240, upper_leg_length |-> 40,
     maximal_calf_circumference |-> 35, upper_arm_length |-> 35,
     arm_circumference |-> 30, waist_circumference |-> 80,
     thigh_circumference |-> 50, amputation |-> NaN]

Demo(id) ==
    [id |-> id, gender |-> 1, age_in_months |-> 360, ethnicity |-> 3,
     pregnancy_status |-> NaN]

Exam(id, exam_status, fat, lean) ==
    [id |-> id, exam_status |-> exam_status, total_fat_mass |-> fat,
     total_lean_mass |-> lean]

\* Rows 1, 2 and 3 of a table sit in the files of the first three cycles, the
\* rest in the last cycle's file, so that concatenation rebuilds the table.
PartOf(table, y) ==
    IF y < Len(survey_years)
    THEN (IF y <= Len(table) THEN <<table[y]>> ELSE <<>>)
    ELSE (IF Len(table) >= y THEN SubSeq(table, y, Len(table)) ELSE <<>>)

YearIndex(year) == CHOOSE y \in 1..Len(survey_years) : survey_years[y] = year

Files(lean_fat, body, demo) ==
    [year \in Range(survey_years) |->
        [lean_fat_data |-> PartOf(lean_fat, YearIndex(year)),
         body_measures |-> PartOf(body, YearIndex(year)),
         demographic_data |-> PartOf(demo, YearIndex(year))]]

\* Stage 2 before its first cell has run.
Stage2Start(files, missing) ==
    /\ pc = "load"
    /\ csv_files = files
    /\ missing_files = missing
    /\ lean_fat_data = <<>> /\ body_measurements = <<>> /\ demographic_data = <<>>
    /\ filtered_lean_fat_data = <<>>
    /\ aggregated_lean_fat_df = <<>>
    /\ merged_health_data = <<>>
    /\ filtered_health_data = <<>>
    /\ cleaned_health_data = <<>>
    /\ validated_health_data = <<>>
    /\ train_set = {} /\ test_set = {}
    /\ printed = <<>>
    /\ saved = <<>>

Stage1Start(kind) ==
    /\ batch_i = 1
    /\ invoked = <<>>
    /\ batch_out = <<[msg |-> "Processing XPT files..."]>>
    /\ broken_xpt = kind
    /\ xpt_seen = <<>>
    /\ csv_written = <<>>

BmiStart(v) == bmi_value = v /\ bmi_class = "unset"

\* -- Repeated exams of subject 1 (then two different exams of subject 2).
RepeatedExams == {Exam(1, 1, 60, 600), Exam(1, 1, 60, 660),
                  Exam(1, 1, 120, 600), Exam(1, 1, 240, 660)}

InitRepeatedExams ==
    \E lf \in SeqUpTo(RepeatedExams, MaxExams) :
        Stage2Start(Files(lf \o <<Exam(2, 1, 120, 600), Exam(2, 1, 240, 660)>>,
                          <<Body(1), Body(2)>>, <<Demo(1), Demo(2)>>), {})

\* -- Exams of two subjects: valid ones, and ones with another status, no
\*    status, or a missing mass.
MixedExams ==
    {Exam(1, 1, 60, 600), Exam(1, 1, 120, 660), Exam(1, 2, 240, 720), Exam(1, 1, NaN, 720),
     Exam(2, 1, 60, 600), Exam(2, 1, 120, 660), Exam(2, NaN, 240, 720), Exam(2, 1, 240, NaN)}

InitMixedExams ==
    \E lf \in SeqUpTo(MixedExams, MaxRows) :
        Stage2Start(Files(lf, <<Body(1), Body(2)>>, <<Demo(1), Demo(2)>>), {})

\* -- Body tables (up to MaxRows rows) and demographic tables (up to two
\*    rows) over two subject ids, repeats allowed, and exams for any subset
\*    of the subjects.
InitJoin ==
    \E exams \in {<<>>, <<Exam(1, 1, 60, 600)>>, <<Exam(2, 1, 60, 600)>>,
                  <<Exam(1, 1, 60, 600), Exam(2, 1, 60, 600)>>} :
    \E body \in SeqUpTo({Body(1), Body(2)}, MaxRows) :
    \E demo \in SeqUpTo({Demo(1), Demo(2)}, 2) :
        Stage2Start(Files(exams, body, demo), {})

\* -- Ages around every boundary of the age filter and of the age bands, with
\*    every amputation flag; a second subject that stays, is an amputee, is
\*    too old, or has no age; a third who is an amputee of ordinary age.
AgeProbes == {NaN, 179, 180, 191, 192, 311, 312, 431, 432, 551, 552, 671, 672,
              767, 768, 779, 780}
AmputationFlags == {NaN, 1, 2}

InitAges ==
    \E age \in AgeProbes : \E amp \in AmputationFlags :
    \E amp2 \in {NaN, 1} : \E age2 \in {360, 800, NaN} :
        Stage2Start(
            Files(<<Exam(1, 1, 60, 600), Exam(2, 1, 60, 600), Exam(3, 1, 60, 600)>>,
                  <<[Body(1) EXCEPT !.amputation = amp], [Body(2) EXCEPT !.amputation = amp2],
                    [Body(3) EXCEPT !.amputation = 1]>>,
                  <<[Demo(1) EXCEPT !.age_in_months = age],
                    [Demo(2) EXCEPT !.age_in_months = age2], Demo(3)>>), {})

\* -- Measurements at and beyond the two ends of every plausible range, for
\*    two subjects beside a third with ordinary measurements.
RangeOf(column) == CHOOSE rng \in Range(valid_ranges) : rng.column = column
RangeColumns == {rng.column : rng \in Range(valid_ranges)}

EdgeValues(column) ==
    {RangeOf(column).min_val - 1, RangeOf(column).min_val,
     RangeOf(column).max_val, RangeOf(column).max_val + 1}

\* one column at an edge value; or two columns both above their maximum
EdgeBodies(id) ==
    {Body(id)}
    \cup {[Body(id) EXCEPT ![p[1]] = p[2]] :
             p \in UNION {{<<c, v>> : v \in EdgeValues(c)} : c \in RangeColumns}}
    \cup {[Body(id) EXCEPT ![p[1]] = RangeOf(p[1]).max_val + 1,
                           ![p[2]] = RangeOf(p[2]).max_val + 1] :
             p \in {q \in RangeColumns \X RangeColumns : q[1] # q[2]}}

OutOfRangeBodies(id) ==
    {Body(id)}
    \cup {[Body(id) EXCEPT ![c] = RangeOf(c).min_val - 1] : c \in RangeColumns}
    \cup {[Body(id) EXCEPT ![c] = RangeOf(c).max_val + 1] : c \in RangeColumns}

InitRanges ==
    \E b1 \in EdgeBodies(1) : \E b2 \in OutOfRangeBodies(2) :
        Stage2Start(
            Files(<<Exam(1, 1, 60, 600), Exam(2, 1, 60, 600), Exam(3, 1, 60, 600)>>,
                  <<b1, b2, Body(3)>>, <<Demo(1), Demo(2), Demo(3)>>), {})

\* -- Up to MaxRows + 1 subjects, each of either gender and of one of two BMI
\*    classes: every pattern of equal and different stratification keys.
KeyedBody(id, bmi) == [Body(id) EXCEPT !.bmi = bmi]
KeyedDemo(id, gender) == [Demo(id) EXCEPT !.gender = gender]

InitStrata ==
    \E n \in 1..(MaxRows + 1) : \E k \in [1..n -> {240, 320} \X {1, 2}] :
        Stage2Start(Files([i \in 1..n |-> Exam(i, 1, 60, 600)],
                          [i \in 1..n |-> KeyedBody(i, k[i][1])],
                          [i \in 1..n |-> KeyedDemo(i, k[i][2])]), {})

\* -- Two subjects with a BMI at a boundary of a class or of the valid range.
BmiProbes == {99, 100, 184, 185, 186, 249, 250, 251, 299, 300, 301, 349, 350, 351, 600, 601}

InitBmi ==
    \E bmi \in BmiProbes :
        Stage2Start(Files(<<Exam(1, 1, 60, 600), Exam(2, 1, 60, 600)>>,
                          <<KeyedBody(1, bmi), KeyedBody(2, bmi)>>,
                          <<Demo(1), Demo(2)>>), {})

\* -- A subject with up to two missing values among the measurements and the
\*    demographic fields, a second with any pregnancy and amputation codes
\*    (missing ones included), and a third with only those two missing.
MeasuredColumns == (DOMAIN Body(1)) \ {"id", "amputation"}
DemographicColumns == (DOMAIN Demo(1)) \ {"id", "pregnancy_status"}

Blanked(row, cols) == [c \in DOMAIN row |-> IF c \in cols THEN NaN ELSE row[c]]

InitMissingValues ==
    \E cols \in {C \in SUBSET (MeasuredColumns \cup DemographicColumns) :
                    Cardinality(C) <= 2} :
    \E preg \in {NaN, 1, 2} : \E amp \in {NaN, 2} :
        Stage2Start(
            Files(<<Exam(1, 1, 60, 600), Exam(2, 1, 60, 600), Exam(3, 1, 60, 600)>>,
                  <<Blanked(Body(1), cols), [Body(2) EXCEPT !.amputation = amp], Body(3)>>,
                  <<Blanked(Demo(1), cols), [Demo(2) EXCEPT !.pregnancy_status = preg],
                    Demo(3)>>), {})

\* -- One subject per survey cycle, and any set of the twelve CSV files absent.
AllCsvFiles == Range(survey_years) \X Range(data_types)

InitMissingFiles ==
    \E missing \in SUBSET AllCsvFiles :
        Stage2Start(Files([i \in 1..4 |-> Exam(i, 1, 60, 600)],
                          [i \in 1..4 |-> Body(i)],
                          [i \in 1..4 |-> Demo(i)]), missing)

-----------------------------------------------------------------------------
(* Inputs: the source file of a single conversion *)

\* The four column lists the batch passes (one tuple of each kind).
RequestedLists == {survey_cycles[k] : k \in 1..4}

AbsentSets(columns) ==
    {A \in SUBSET Range(columns) : Cardinality(A) <= MaxAbsent}

\* reader.fields of a file that lacks the columns in A and may carry a field
\* nobody asked for.
SchemaWithout(columns, A, extra) ==
    SelectSeq(columns, LAMBDA c : c \notin A) \o extra

PositionIn(fields, f) == CHOOSE k \in 1..Len(fields) : fields[k] = f

\* A record whose values differ from field to field and from seed to seed.
Record(fields, seed) ==
    [f \in Range(fields) |-> 100 * seed + PositionIn(fields, f)]

ConvertCall(t, A, extra, seeds, readable, exists, wellformed) ==
    [columns |-> t.columns, new_columns |-> t.new_columns,
     xpt |-> XptFile(exists, wellformed, SchemaWithout(t.columns, A, extra),
                     [k \in 1..Len(seeds) |->
                         Record(SchemaWithout(t.columns, A, extra), seeds[k])],
                     readable),
     path |-> csv_path(t)]

InitConvert ==
    /\ Stage2Start(Files(<<>>, <<>>, <<>>), {})
    /\ Stage1Start("absent")
    /\ BmiStart(0)
    /\ \E t \in RequestedLists : \E A \in AbsentSets(t.columns) :
       \E extra \in {<<>>, <<"SDDSRVYR">>} :
       \E seeds \in SeqUpTo({1, 2}, MaxRecords) : \E readable \in 0..Len(seeds) :
       \E state \in {<<TRUE, TRUE>>, <<TRUE, FALSE>>, <<FALSE, FALSE>>} :
           ConvertStart(ConvertCall(t, A, extra, seeds, readable, state[1], state[2]))

-----------------------------------------------------------------------------
(* Specifications *)

\* The preprocessing notebook, run cell by cell on any of the inputs.
Init ==
    /\ \/ InitRepeatedExams
       \/ InitMixedExams
       \/ InitJoin
       \/ InitAges
       \/ InitRanges
       \/ InitStrata
       \/ InitBmi
       \/ InitMissingFiles
       \/ InitMissingValues
    /\ Stage1Start("absent")
    /\ ConvertStart(NoCall)
    /\ BmiStart(0)

Next ==
    \/ LoadAndConcat
    \/ FilterExam
    \/ Aggregate
    \/ Merge
    \/ FilterAgeAmputation
    \/ Cleanup
    \/ Validate
    \/ Stratify
    \/ CollapseAndSplit
    \/ Save

Spec == Init /\ [][Next]_vars

\* The conversion notebook's batch loop.
InitBatch ==
    /\ Stage2Start(Files(<<>>, <<>>, <<>>), {})
    /\ \E kind \in DamageKinds : Stage1Start(kind)
    /\ ConvertStart(NoCall)
    /\ BmiStart(0)

NextBatch == BatchStep

SpecBatch == InitBatch /\ [][NextBatch]_vars

\* classify_bmi applied to every value from 0 to MaxBmi tenths.
InitClassify ==
    /\ Stage2Start(Files(<<>>, <<>>, <<>>), {})
    /\ Stage1Start("absent")
    /\ ConvertStart(NoCall)
    /\ \E v \in 0..MaxBmi : BmiStart(v)

NextClassify == ClassifyOne

SpecClassify == InitClassify /\ [][NextClassify]_vars

\* convert_xpt_to_csv called once on any of the source files.
NextConvert == ConvertOne

SpecConvert == InitConvert /\ [][NextConvert]_vars

-----------------------------------------------------------------------------
(* Properties *)

Cells == <<"load", "filter_exam", "aggregate", "merge", "filter_age", "cleanup",
           "validate", "stratify", "split", "save", "done">>
CellIndex(cell) == CHOOSE k \in 1..Len(Cells) : Cells[k] = cell

\* The cell has run to its end.
HasRun(cell) ==
    IF pc = "stopped_at_load" THEN FALSE
    ELSE IF pc = "stopped_at_split" THEN CellIndex("split") > CellIndex(cell)
    ELSE CellIndex(pc) > CellIndex(cell)

\* The splitter was called (and returned two tables or raised).
SplitCalled == pc \in {"stopped_at_split", "save", "done"}
SplitReturned == pc \in {"save", "done"}
SplitRaisedWith(reason) ==
    /\ pc = "stopped_at_split"
    /\ printed[Len(printed)].reason = reason

Strata(table) == {table[i].stratify_group : i \in 1..Len(table)}
Members(table, key) == {i \in 1..Len(table) : table[i].stratify_group = key}

\* C1: once the splitter has been called on a validated table (of two rows
\* or more: a table of fewer rows cannot be split at all), no stratum of the
\* table handed to it has a single member, and the split has not failed
\* with the single-member-group error.
C1_NoSingleMemberStratum ==
    (SplitCalled /\ Len(validated_health_data) >= 2) =>
        /\ \A key \in Strata(validated_health_data) :
              Cardinality(Members(validated_health_data, key)) # 1
        /\ ~SplitRaisedWith("least_populated_class_has_1_member")

IdsAt(table, indices) == {table[i].id : i \in indices}
IdCount(table, indices, id) == Cardinality({i \in indices : table[i].id = id})

\* C2: when the split returns, train and test are disjoint sets of rows that
\* together hold every row of the validated table, every subject id as often
\* as the validated table holds it, and no id is in both.
C2_SplitPartitionsSubjects ==
    SplitReturned =>
        LET all == 1..Len(validated_health_data) IN
        /\ train_set \cap test_set = {}
        /\ train_set \cup test_set = all
        /\ \A id \in IdsAt(validated_health_data, all) :
              IdCount(validated_health_data, train_set, id)
              + IdCount(validated_health_data, test_set, id)
              = IdCount(validated_health_data, all, id)
        /\ IdsAt(validated_health_data, train_set)
              \cap IdsAt(validated_health_data, test_set) = {}

WithinRanges(r) ==
    \A k \in 1..Len(valid_ranges) :
        valid_ranges[k].column \in DOMAIN r =>
            /\ r[valid_ranges[k].column] # NaN
            /\ r[valid_ranges[k].column] >= valid_ranges[k].min_val
            /\ r[valid_ranges[k].column] <= valid_ranges[k].max_val

\* C3: after validation every row of the validated table has every covered
\* column within its inclusive bounds, and so has every row written to the
\* train and test files.
C3_SurvivorsWithinRanges ==
    /\ HasRun("validate") => \A r \in Range(validated_health_data) : WithinRanges(r)
    /\ pc = "done" => \A r \in Range(saved.train) \cup Range(saved.test) : WithinRanges(r)

\* C3 witness: a row was removed by validation, and a row with a value on a
\* bound of its range was written to an output file.
C3_Witness ==
    /\ pc = "done"
    /\ Len(validated_health_data) < Len(cleaned_health_data)
    /\ \E r \in Range(saved.train) \cup Range(saved.test) :
          \E k \in 1..Len(valid_ranges) :
              r[valid_ranges[k].column] \in {valid_ranges[k].min_val, valid_ranges[k].max_val}

TableIds(table) == {table[i].id : i \in 1..Len(table)}
Smallest(a, b, c) == IF a <= b /\ a <= c THEN a ELSE IF b <= c THEN b ELSE c

\* C4: after the three-way join the number of joined rows is the number of
\* ids present in all three tables, and at most the size of the smallest table.
C4_JoinCountsCommonIds ==
    HasRun("merge") =>
        /\ Len(merged_health_data) =
              Cardinality(TableIds(body_measurements) \cap TableIds(demographic_data)
                          \cap TableIds(aggregated_lean_fat_df))
        /\ Len(merged_health_data) <=
              Smallest(Len(body_measurements), Len(demographic_data),
                       Len(aggregated_lean_fat_df))

\* v is a most frequent value of vals when some value repeats, else their mean.
TopCount(vals) == Max({Count(vals, w) : w \in Range(vals)})
MostFrequentElseMean(vals, v) ==
    IF TopCount(vals) > 1
    THEN Count(vals, v) = TopCount(vals)
    ELSE v * Len(vals) = Sum(vals)

ValuesOf(table, id, field) ==
    Column(SelectSeq(table, LAMBDA r : r.id = id), field)

MassFields == {"total_fat_mass", "total_lean_mass"}

\* C5: for each subject and each of the two mass fields, the aggregated value
\* is the subject's most frequent value when that value occurs more than
\* once among the subject's valid rows, and otherwise the mean of the values.
C5_ModeElseMean ==
    HasRun("aggregate") =>
        \A a \in Range(aggregated_lean_fat_df) : \A f \in MassFields :
            MostFrequentElseMean(ValuesOf(filtered_lean_fat_data, a.id, f), a[f])

\* C5 witness: subject 1 has five valid rows, one fat-mass value three times
\* and two others once each, and gets the repeated value; subject 2 has
\* distinct values only and gets their mean, which is none of them.
C5_Witness ==
    /\ pc = "merge"
    /\ \E a \in Range(aggregated_lean_fat_df) :
          LET vals == ValuesOf(filtered_lean_fat_data, a.id, "total_fat_mass") IN
          /\ Len(vals) = 5
          /\ {Count(vals, w) : w \in Range(vals)} = {1, 3}
          /\ Cardinality(Range(vals)) = 3
          /\ Count(vals, a.total_fat_mass) = 3
    /\ \E a \in Range(aggregated_lean_fat_df) :
          LET vals == ValuesOf(filtered_lean_fat_data, a.id, "total_fat_mass") IN
          /\ Len(vals) > 1
          /\ Cardinality(Range(vals)) = Len(vals)
          /\ a.total_fat_mass \notin Range(vals)
          /\ a.total_fat_mass * Len(vals) = Sum(vals)

\* A Lean/Fat Mass row with exam_status 1 and no missing field.
CompleteValidExam(r) ==
    r.exam_status = 1 /\ r.id # NaN /\ r.total_fat_mass # NaN /\ r.total_lean_mass # NaN

CompleteValidExams == SelectSeq(lean_fat_data, CompleteValidExam)

\* C6: the aggregated table has exactly one row for each id that has a valid,
\* complete Lean/Fat Mass row and none for any other id, and its values are
\* those of the valid, complete rows alone.
C6_OneRowPerValidSubject ==
    HasRun("aggregate") =>
        /\ TableIds(aggregated_lean_fat_df) = TableIds(CompleteValidExams)
        /\ Len(aggregated_lean_fat_df) = Cardinality(TableIds(CompleteValidExams))
        /\ \A a \in Range(aggregated_lean_fat_df) : \A f \in MassFields :
              MostFrequentElseMean(ValuesOf(CompleteValidExams, a.id, f), a[f])

\* C6 witness: one subject has only invalid or incomplete rows and no
\* aggregated row; another has rows of both kinds and one aggregated row.
C6_Witness ==
    /\ pc = "merge"
    /\ \E id \in TableIds(lean_fat_data) : id \notin TableIds(aggregated_lean_fat_df)
    /\ \E a \in Range(aggregated_lean_fat_df) :
          \E r \in Range(lean_fat_data) : r.id = a.id /\ ~CompleteValidExam(r)

\* A joined row of a subject who is no amputee and is 15 to under 64 years old.
Included(r) ==
    /\ r.amputation # 1
    /\ r.age_in_months # NaN
    /\ r.age_in_months >= 15 * 12
    /\ r.age_in_months < 64 * 12

\* C7: the filtered table holds exactly the joined rows whose amputation flag
\* is not 1 (a missing flag included) and whose age in years is in [15, 64)
\* (a missing age excluded).
C7_InclusionFilter ==
    HasRun("filter_age") =>
        filtered_health_data = SelectSeq(merged_health_data, Included)

\* C7 witness: a row with a missing amputation flag is kept, a row with a
\* missing age and a row of an amputee are removed.
C7_Witness ==
    /\ pc = "cleanup"
    /\ \E r \in Range(filtered_health_data) : r.amputation = NaN
    /\ \E r \in Range(merged_health_data) :
          r.age_in_months = NaN /\ r \notin Range(filtered_health_data)
    /\ \E r \in Range(merged_health_data) :
          r.amputation = 1 /\ r.age_in_months = 360 /\ r \notin Range(filtered_health_data)

\* C8: after stratification every validated row has its age in exactly one of
\* the five ten-year bands [16,26), [26,36), [36,46), [46,56), [56,66), and
\* the label of that band is the age part of its stratification key.
C8_AgeInOneOfFiveBands ==
    pc = "split" =>
        \A r \in Range(validated_health_data) :
            \E k \in 0..4 :
                /\ r.age_in_months >= 12 * (16 + 10 * k)
                /\ r.age_in_months < 12 * (26 + 10 * k)
                /\ r.age_group = age_labels[k + 1]
                /\ r.stratify_group[1] = age_labels[k + 1]

\* C9: classify_bmi gives Underweight below 18.5, Healthy Weight from 18.5 to
\* under 25, Overweight from 25 to under 30, Obese from 30 to under 35 and
\* Extremely Obese from 35 (values in tenths).
C9_BmiBands ==
    bmi_class # "unset" =>
        /\ bmi_value < 185 => bmi_class = "Underweight"
        /\ (185 <= bmi_value /\ bmi_value < 250) => bmi_class = "Healthy Weight"
        /\ (250 <= bmi_value /\ bmi_value < 300) => bmi_class = "Overweight"
        /\ (300 <= bmi_value /\ bmi_value < 350) => bmi_class = "Obese"
        /\ bmi_value >= 350 => bmi_class = "Extremely Obese"

\* C9 witness: the boundary value 25.0 has been classified, in the upper band.
C9_Witness == bmi_value = 250 /\ bmi_class = "Overweight"

XptFails(xpt) == ~xpt.exists \/ ~xpt.wellformed \/ xpt.readable < Len(xpt.rows)
Outcomes == SelectSeq(batch_out, LAMBDA m : m.msg \in {"Error", "Data successfully saved"})
Completion == "All files processed successfully."

\* C10: whatever conversions raise, the batch calls the converter once per
\* tuple of survey_cycles in list order, prints one outcome per call (an
\* error exactly for the calls that raised), and ends with the completion
\* message.
C10_FailureIsolation ==
    /\ batch_i \in 1..(Len(survey_cycles) + 1)
    /\ invoked = [k \in 1..(batch_i - 1) |-> k]
    /\ Len(Outcomes) = batch_i - 1
    /\ \A k \in 1..Len(Outcomes) : (Outcomes[k].msg = "Error") <=> XptFails(xpt_seen[k])
    /\ \A k \in 1..Len(batch_out) :
          (batch_out[k].msg = Completion) <=>
              (batch_i = Len(survey_cycles) + 1 /\ k = Len(batch_out))

\* C10 witness: the batch is over; the first and the last conversion raised
\* and the second did not.
C10_Witness ==
    /\ batch_i = Len(survey_cycles) + 1
    /\ XptFails(xpt_seen[1])
    /\ ~XptFails(xpt_seen[2])
    /\ XptFails(xpt_seen[Len(survey_cycles)])


-----------------------------------------------------------------------------
(* convert_xpt_to_csv: one call *)

Returned == conv_pc = "returned"
Parsed == conv_call.xpt.exists /\ conv_call.xpt.wellformed
AbsentColumns == Range(conv_call.columns) \ Range(conv_call.xpt.fields)

IsPrint(ev, msg) == ev.op = "print" /\ ev.msg = msg
IsWrite(ev) == ev.op \in {"writeheader", "writerow"}
Warnings == {k \in 1..Len(conv_events) : IsPrint(conv_events[k], "Warning_missing_columns")}
CompletedOk ==
    /\ conv_result.printed # <<>>
    /\ conv_result.printed[Len(conv_result.printed)].msg = "Data successfully saved"
    /\ ~conv_result.propagates

\* The cell of written row k under output column j is the sentinel for an
\* absent source column and the record's own value otherwise.
CellAsSource(k, j) ==
    LET old_name == conv_call.columns[j]
        cell == conv_result.written[1].rows[k][j]
    IN  IF old_name \in AbsentColumns THEN cell = "nan"
        ELSE cell = conv_call.xpt.rows[k][old_name]

\* C11: when the source schema lacks some requested columns, the call prints
\* exactly one warning, before the header or any row is written, naming
\* exactly the absent columns (each once); it is not fatal: unless the reader
\* itself fails on a record, the call ends with the success message and has
\* written every record; and in every written row an absent column holds
\* "nan" while every other column holds that record's value of its source field.
C11_MissingColumnsWarnedAndFilled ==
    (Returned /\ Parsed /\ AbsentColumns # {}) =>
        /\ Cardinality(Warnings) = 1
        /\ \A w \in Warnings :
              /\ \A k \in 1..Len(conv_events) : IsWrite(conv_events[k]) => w < k
              /\ Range(conv_events[w].columns) = AbsentColumns
              /\ Len(conv_events[w].columns) = Cardinality(AbsentColumns)
        /\ conv_result.printed[1].msg = "Warning_missing_columns"
        /\ Range(conv_result.printed[1].columns) = AbsentColumns
        /\ Len(conv_result.written) = 1
        /\ (conv_call.xpt.readable = Len(conv_call.xpt.rows) =>
              /\ CompletedOk
              /\ Len(conv_result.written[1].rows) = Len(conv_call.xpt.rows))
        /\ \A k \in 1..Len(conv_result.written[1].rows) :
              \A j \in 1..Len(conv_call.columns) : CellAsSource(k, j)

\* Two columns are absent, others are present, and two different records
\* were converted to the end.
C11_Witness ==
    /\ Returned /\ Parsed
    /\ Cardinality(AbsentColumns) = 2
    /\ Range(conv_call.columns) \ AbsentColumns # {}
    /\ CompletedOk
    /\ Len(conv_result.written[1].rows) = 2
    /\ conv_result.written[1].rows[1] # conv_result.written[1].rows[2]

\* C12: when the call completes without an exception, the destination file
\* holds one header, the output names in mapping order, written once and
\* before any row, then one row per source record in source order, each row
\* with one cell per output column.
C12_HeaderThenOneRowPerRecord ==
    (Returned /\ CompletedOk) =>
        /\ Len(conv_result.written) = 1
        /\ conv_result.written[1].header = conv_call.new_columns
        /\ Len(conv_result.written[1].rows) = Len(conv_call.xpt.rows)
        /\ \A k \in 1..Len(conv_result.written[1].rows) :
              /\ Len(conv_result.written[1].rows[k]) = Len(conv_call.new_columns)
              /\ \A j \in 1..Len(conv_call.columns) : CellAsSource(k, j)
        /\ Cardinality({k \in 1..Len(conv_events) : conv_events[k].op = "writeheader"}) = 1
        /\ \A k, h \in 1..Len(conv_events) :
              (conv_events[h].op = "writeheader" /\ conv_events[k].op = "writerow") => h < k
        /\ [k \in 1..Len(conv_result.written[1].rows) |->
              [op |-> "writerow", row |-> conv_result.written[1].rows[k]]]
           = SelectSeq(conv_events, LAMBDA ev : ev.op = "writerow")

\* A complete schema, two different records, converted to the end.
C12_Witness ==
    /\ Returned /\ CompletedOk
    /\ AbsentColumns = {}
    /\ Len(conv_call.xpt.rows) = 2
    /\ conv_call.xpt.rows[1] # conv_call.xpt.rows[2]
    /\ Len(conv_result.written[1].rows) = 2

-----------------------------------------------------------------------------
(* The loader and missing CSV files *)

Loaded(year, data_type) ==
    IF <<year, data_type>> \in missing_files THEN <<>> ELSE csv_files[year][data_type]

\* The rows of the category's files that exist, in cycle order.
ConcatOfExisting(data_type) ==
    Flatten([y \in 1..Len(survey_years) |-> Loaded(survey_years[y], data_type)])

FileWarnings == SelectSeq(printed, LAMBDA m : m.msg = "file_not_found")

\* C13: whatever set of per-cycle CSV files is missing, the loader warns once
\* per missing file, does not abort, and leaves three unified tables, each the
\* concatenation in cycle order of the category's files that exist.
C13_MissingFilesSkipped ==
    pc # "load" =>
        /\ pc # "stopped_at_load"
        /\ {<<m.year, m.data_type>> : m \in Range(FileWarnings)} = missing_files
        /\ Len(FileWarnings) = Cardinality(missing_files)
        /\ lean_fat_data = ConcatOfExisting("lean_fat_data")
        /\ body_measurements = ConcatOfExisting("body_measures")
        /\ demographic_data = ConcatOfExisting("demographic_data")

-----------------------------------------------------------------------------
(* Ids at the merge *)

UniqueIds(table) == \A i, j \in 1..Len(table) : table[i].id = table[j].id => i = j

\* C14: when the three tables are merged, no id occurs twice in the body
\* measurements, in the demographics or in the aggregated masses, and the
\* joined table has at most one row per id.
C14_IdsUniqueAtMerge ==
    /\ HasRun("aggregate") =>
          /\ UniqueIds(body_measurements)
          /\ UniqueIds(demographic_data)
          /\ UniqueIds(aggregated_lean_fat_df)
    /\ HasRun("merge") => UniqueIds(merged_health_data)

-----------------------------------------------------------------------------
(* The counts reported by validation *)

OutsideRange(r, rng) ==
    r[rng.column] = NaN \/ r[rng.column] < rng.min_val \/ r[rng.column] > rng.max_val

\* The rows of the validation input still present after the rules of the
\* first k columns, and the rows the rule of column k then takes away.
RECURSIVE RemainingAfter(_)
RemainingAfter(k) ==
    IF k = 0 THEN cleaned_health_data
    ELSE SelectSeq(RemainingAfter(k - 1), LAMBDA r : ~OutsideRange(r, valid_ranges[k]))

RemovedBy(k) == Len(RemainingAfter(k - 1)) - Len(RemainingAfter(k))

RemovalReports == SelectSeq(printed, LAMBDA m : m.msg = "records_removed")

ReportFor(k) ==
    SelectSeq(RemovalReports, LAMBDA m : m.column = valid_ranges[k].column)

\* C15: the count reported for a column is the number of rows that column's
\* rule removes from the table left by the rules of the earlier columns (so
\* no row is counted twice), there is a message for a column only when that
\* number is not zero, the messages come in column order, and the counts add
\* up to the rows validation was given minus the rows it returned.
C15_ReportedCountsAreRemovals ==
    HasRun("validate") =>
        /\ \A k \in 1..Len(valid_ranges) :
              IF RemovedBy(k) = 0 THEN ReportFor(k) = <<>>
              ELSE /\ Len(ReportFor(k)) = 1
                   /\ ReportFor(k)[1].count = RemovedBy(k)
        /\ \A i, j \in 1..Len(RemovalReports) :
              i < j => \E a, b \in 1..Len(valid_ranges) :
                          /\ a < b
                          /\ valid_ranges[a].column = RemovalReports[i].column
                          /\ valid_ranges[b].column = RemovalReports[j].column
        /\ Sum([i \in 1..Len(RemovalReports) |-> RemovalReports[i].count])
              = Len(cleaned_health_data) - Len(validated_health_data)

\* One row is outside the ranges of two columns, another row is outside the
\* range of the later of the two, and some row survives: two messages, the
\* second counting one row although two rows of the input break its rule.
C15_Witness ==
    /\ HasRun("validate")
    /\ Len(RemovalReports) = 2
    /\ validated_health_data # <<>>
    /\ \E k \in 1..Len(valid_ranges) :
          /\ ReportFor(k) # <<>>
          /\ ReportFor(k)[1].count = 1
          /\ Cardinality({i \in 1..Len(cleaned_health_data) :
                            OutsideRange(cleaned_health_data[i], valid_ranges[k])}) = 2

-----------------------------------------------------------------------------
(* The cleanup step *)

HelperColumns == {"pregnancy_status", "amputation"}

CompleteApartFromHelpers(r) == \A c \in (DOMAIN r) \ HelperColumns : r[c] # NaN

WithoutHelpers(r) == [c \in (DOMAIN r) \ HelperColumns |-> r[c]]

\* C16: the cleaned table is, in order, the rows of the filtered table with
\* no missing value outside pregnancy_status and amputation, without those
\* two columns; so a missing pregnancy_status or amputation excludes nobody,
\* and the cleaned table holds no missing value.
C16_CleanupDropsColumnsFirst ==
    HasRun("cleanup") =>
        /\ cleaned_health_data =
              [i \in 1..Len(SelectSeq(filtered_health_data, CompleteApartFromHelpers)) |->
                  WithoutHelpers(SelectSeq(filtered_health_data, CompleteApartFromHelpers)[i])]
        /\ \A r \in Range(cleaned_health_data) :
              /\ (DOMAIN r) \cap HelperColumns = {}
              /\ \A c \in DOMAIN r : r[c] # NaN

\* A subject with a missing measurement was dropped, a subject with both
\* helper values missing was kept, and so was one with both present.
C16_Witness ==
    /\ HasRun("cleanup")
    /\ \E r \in Range(filtered_health_data) : ~CompleteApartFromHelpers(r)
    /\ \E r \in Range(filtered_health_data) :
          /\ r.pregnancy_status = NaN /\ r.amputation = NaN
          /\ r.id \in TableIds(cleaned_health_data)
    /\ \E r \in Range(filtered_health_data) :
          /\ r.pregnancy_status # NaN /\ r.amputation # NaN
          /\ r.id \in TableIds(cleaned_health_data)

-----------------------------------------------------------------------------
(* Tables of earlier steps *)

\* C17: no step changes a table that an earlier step produced: once the cell
\* that builds a table has run, the table keeps its rows and its columns
\* through every later cell (the validated table through the stratification
\* and collapse cells in particular).
C17_EarlierTablesNeverChange ==
    [][ /\ HasRun("load") =>
              UNCHANGED <<lean_fat_data, body_measurements, demographic_data>>
        /\ HasRun("filter_exam") => UNCHANGED filtered_lean_fat_data
        /\ HasRun("aggregate") => UNCHANGED aggregated_lean_fat_df
        /\ HasRun("merge") => UNCHANGED merged_health_data
        /\ HasRun("filter_age") => UNCHANGED filtered_health_data
        /\ HasRun("cleanup") => UNCHANGED cleaned_health_data
        /\ HasRun("validate") => UNCHANGED validated_health_data ]_vars

-----------------------------------------------------------------------------
(* Ties for the most frequent value *)

\* The values of vals that occur as often as the most frequent one.
TiedValues(vals) == {w \in Range(vals) : Count(vals, w) = TopCount(vals)}

\* C18: when two or more distinct values of a subject occur equally often,
\* more than once each and more often than any other value, the aggregated
\* value is the smallest of them, wherever they stand among the subject's
\* rows, and not the mean.
C18_TieTakesSmallest ==
    HasRun("aggregate") =>
        \A a \in Range(aggregated_lean_fat_df) : \A f \in MassFields :
            LET vals == ValuesOf(filtered_lean_fat_data, a.id, f) IN
            (TopCount(vals) > 1 /\ Cardinality(TiedValues(vals)) >= 2) =>
                /\ a[f] \in TiedValues(vals)
                /\ \A w \in TiedValues(vals) : a[f] <= w

\* Two values occur twice each, the larger one in the subject's first row;
\* the aggregated value is the smaller one and differs from the mean.
C18_Witness ==
    /\ HasRun("aggregate")
    /\ \E a \in Range(aggregated_lean_fat_df) :
          LET vals == ValuesOf(filtered_lean_fat_data, a.id, "total_fat_mass") IN
          /\ TopCount(vals) = 2
          /\ Cardinality(TiedValues(vals)) = 2
          /\ vals[1] \in TiedValues(vals)
          /\ a.total_fat_mass < vals[1]
          /\ a.total_fat_mass * Len(vals) # Sum(vals)

=============================================================================
